---- MODULE Spec2Model ----
(***************************************************************************)
(* A model of the Linux ethtool generic-netlink client: the request        *)
(* dispatcher (client.get / client.execute), the per-record entry points,  *)
(* the response decoders and the error translation of Error.Is.            *)
(*                                                                         *)
(* Go values are represented as follows.                                   *)
(*   - uint8  : a number 0..255.                                           *)
(*   - uint32 : its 4 bytes, least significant first (the native order of  *)
(*              the little-endian hosts the library is tested on).         *)
(*   - int    : its 8 bytes, two's complement, least significant first     *)
(*              (GOARCH with a 64-bit int).                                *)
(*   - string : a TLA+ string; LongName stands for a string too long for   *)
(*              one netlink attribute.                                     *)
(*   - a netlink attribute: a record with its type tag and its payload,    *)
(*     which is raw bytes, a NUL-terminated string or nested attributes.   *)
(***************************************************************************)
EXTENDS Integers, Sequences, FiniteSets, TLC

\* The largest number of messages the transport answers with.
MaxMsgs == 2

(***************************************************************************)
(* Fixed-width integers.                                                   *)
(***************************************************************************)
Byte == 0..255

\* The 4 bytes of the uint32 n, for 0 <= n < 2^31.
U32(n) == << n % 256, (n \div 256) % 256, (n \div 65536) % 256, (n \div 16777216) % 256 >>

ZeroU32 == << 0, 0, 0, 0 >>

\* The 8 bytes of the int n, for 0 <= n < 2^31.
GoInt(n) == U32(n) \o ZeroU32

\* int(-1)
MinusOne == << 255, 255, 255, 255, 255, 255, 255, 255 >>

\* int(1) << 32, a positive int whose low 32 bits are all zero.
TwoTo32 == ZeroU32 \o U32(1)

\* int(1)<<32 + 2, a positive int that does not fit in a uint32.
TwoTo32Plus2 == U32(2) \o U32(1)

\* x == 0 for an int or uint32 x.
IsZero(x) == \A i \in DOMAIN x : x[i] = 0

\* x > 0 for an int x: the sign bit is clear and some bit is set.
IsPositive(x) == x[Len(x)] < 128 /\ ~IsZero(x)

\* The Go conversion uint32(x) of an int x keeps the low 32 bits.
ToUint32(x) == SubSeq(x, 1, 4)

\* The Go conversion int(u) of a uint32 u zero-extends.
ToInt(u) == u \o ZeroU32

(***************************************************************************)
(* Strings.                                                                *)
(***************************************************************************)
\* A device name longer than one netlink attribute can carry.
LongName == "<a name of 65532 bytes>"

\* len(s)
StrLen(s) == IF s = LongName THEN 65532 ELSE Len(s)

(***************************************************************************)
(* Netlink attributes.                                                     *)
(***************************************************************************)
AttrBytes(t, b) == [type |-> t, form |-> "bytes", bytes |-> b, str |-> "", nested |-> << >>]

AttrUint8(t, v) == AttrBytes(t, << v >>)

AttrUint32(t, u) == AttrBytes(t, u)

AttrString(t, s) == [type |-> t, form |-> "string", bytes |-> << >>, str |-> s, nested |-> << >>]

AttrNested(t, as) == [type |-> t, form |-> "nested", bytes |-> << >>, str |-> "", nested |-> as]

\* math.MaxUint16 - nlaHeaderLen: the most payload bytes of one attribute.
MaxAttrData == 65535 - 4

\* The error an AttributeEncoder remembers: a string payload that does not
\* fit in one attribute makes Encode fail.
RECURSIVE EncodeFails(_)
EncodeFails(as) ==
    \E i \in DOMAIN as :
        \/ as[i].form = "string" /\ StrLen(as[i].str) > MaxAttrData
        \/ as[i].form = "nested" /\ EncodeFails(as[i].nested)

(***************************************************************************)
(* Errors.                                                                 *)
(***************************************************************************)
\* The nil error.
NoErr == [type |-> "nil"]

\* The sentinel the client returns for an empty selector.
errBadRequest == [type |-> "errBadRequest"]

\* The sentinels of package os that are part of the API contract.
ErrNotExist == [type |-> "os.ErrNotExist"]

ErrPermission == [type |-> "os.ErrPermission"]

\* A kernel error number as an error value (unix.ENODEV, ...).
Errno(e) == [type |-> "Errno", errno |-> e]

\* The kernel error numbers the transport answers with in this model.
Errnos == {"ENODEV", "EOPNOTSUPP", "EPERM", "EINVAL", "ENOENT", "EACCES"}

\* The extended acknowledgement texts of the kernel ("" when there is none).
ExtAckTexts == {"", "no device matches name"}

\* The transport's error for a kernel error number: a *netlink.OpError.
OpError(e, msg) == [type |-> "OpError", Message |-> msg, Err |-> Errno(e)]

\* A transport failure that is not a *netlink.OpError.
OpaqueErr == [type |-> "opaque"]

\* The error of AttributeEncoder.Encode.
EncodeErr == [type |-> "encode"]

\* The error of an AttributeDecoder or of a decoding callback.
DecodeErr(what) == [type |-> "decode", what |-> what]

\* The exported wrapper *Error{Message, Err}.
Error(msg, err) == [type |-> "Error", Message |-> msg, Err |-> err]

\* syscall.Errno.Is: the sentinels a bare error number answers to.
ErrnoIs(e, target) ==
    \/ target = ErrPermission /\ e \in {"EACCES", "EPERM"}
    \/ target = ErrNotExist /\ e = "ENOENT"

\* The error one step down the chain, NoErr when there is none: *Error and
\* *netlink.OpError unwrap to their Err field.
Unwrap(err) == IF err.type \in {"Error", "OpError"} THEN err.Err ELSE NoErr

\* errors.Is for an error that has no Is method of its own.
RECURSIVE PlainIs(_, _)
PlainIs(err, target) ==
    IF err = NoErr THEN FALSE
    ELSE \/ err = target
         \/ err.type = "Errno" /\ ErrnoIs(err.errno, target)
         \/ PlainIs(Unwrap(err), target)

\* (*Error).Is without the EOPNOTSUPP case.
ErrorIs_NoEOPNOTSUPP(e, target) ==
    CASE target = ErrNotExist -> PlainIs(e.Err, Errno("ENODEV"))
      [] target = ErrPermission -> PlainIs(e.Err, Errno("EPERM"))
      [] OTHER -> FALSE

\* (*Error).Is
ErrorIs(e, target) ==
    CASE target = ErrNotExist ->
            PlainIs(e.Err, Errno("EOPNOTSUPP")) \/ PlainIs(e.Err, Errno("ENODEV"))
      [] target = ErrPermission -> PlainIs(e.Err, Errno("EPERM"))
      [] OTHER -> FALSE

\* errors.Is(err, target): equality, then the Is method, then the chain.
ErrorsIs(err, target) ==
    IF err = NoErr THEN FALSE
    ELSE \/ err = target
         \/ err.type = "Error" /\ ErrorIs(err, target)
         \/ err.type = "Errno" /\ ErrnoIs(err.errno, target)
         \/ PlainIs(Unwrap(err), target)

(***************************************************************************)
(* Requests.                                                               *)
(***************************************************************************)
\* Interface{}: the zero selector.
EmptyInterface == [Index |-> GoInt(0), Name |-> ""]

\* unix.ETHTOOL_FLAG_COMPACT_BITSETS
CompactBitsets == U32(1)

\* unix.ETHTOOL_GENL_VERSION
GenlVersion == 1

\* No request.
NoReq == [Command |-> "none", Version |-> 0, family |-> 0, flags |-> {}, Data |-> << >>]

\* WakeOnLAN.encode with a mask of the eight bits SIZE announces.
encode_MaskOfSize(wol) ==
    << AttrNested("ETHTOOL_A_WOL_MODES",
          << AttrUint32("ETHTOOL_A_BITSET_SIZE", U32(8)),
             AttrUint32("ETHTOOL_A_BITSET_VALUE", wol.Modes),
             AttrUint32("ETHTOOL_A_BITSET_MASK", << 255, 0, 0, 0 >>) >>) >>

\* WakeOnLAN.encode: the modes bitset appended to a WOL_SET request.
encode(wol) ==
    << AttrNested("ETHTOOL_A_WOL_MODES",
          << AttrUint32("ETHTOOL_A_BITSET_SIZE", U32(8)),
             AttrUint32("ETHTOOL_A_BITSET_VALUE", wol.Modes),
             AttrUint32("ETHTOOL_A_BITSET_MASK", wol.Modes) >>) >>

\* The header group client.get builds for the selector ifi.
requestHeader(ifi) ==
    (IF IsPositive(ifi.Index)
        THEN << AttrUint32("ETHTOOL_A_HEADER_DEV_INDEX", ToUint32(ifi.Index)) >>
        ELSE << >>)
    \o (IF ifi.Name # ""
        THEN << AttrString("ETHTOOL_A_HEADER_DEV_NAME", ifi.Name) >>
        ELSE << >>)
    \o << AttrUint32("ETHTOOL_A_HEADER_FLAGS", CompactBitsets) >>

\* The attributes client.get hands to client.execute: the header group, then
\* the optional parameters.
requestAttrs(header, ifi, params) ==
    << AttrNested(header, requestHeader(ifi)) >> \o params

\* client.execute passing the caller's flags without netlink.Request.
execute_NoRequestFlag(cl, cmd, flags, ae) ==
    IF EncodeFails(ae)
    THEN [err |-> EncodeErr, req |-> NoReq]
    ELSE [err |-> NoErr,
          req |-> [Command |-> cmd, Version |-> GenlVersion, family |-> cl.family,
                   flags |-> flags, Data |-> ae]]

\* client.execute up to the transport call: the encoding error, or the
\* message, family and flags passed to Conn.Execute.
execute(cl, cmd, flags, ae) ==
    IF EncodeFails(ae)
    THEN [err |-> EncodeErr, req |-> NoReq]
    ELSE [err |-> NoErr,
          req |-> [Command |-> cmd, Version |-> GenlVersion, family |-> cl.family,
                   flags |-> {"Request"} \cup flags, Data |-> ae]]

\* client.get up to the transport call, reporting an empty selector as
\* os.ErrNotExist.
getSend_NotExist(cl, header, cmd, flags, ifi, params) ==
    IF "Dump" \notin flags /\ IsZero(ifi.Index) /\ ifi.Name = ""
    THEN [sent |-> FALSE, execCalls |-> 0, err |-> ErrNotExist, req |-> NoReq]
    ELSE LET e == execute(cl, cmd, flags, requestAttrs(header, ifi, params))
         IN  IF e.err # NoErr
             THEN [sent |-> FALSE, execCalls |-> 0, err |-> Error("", e.err), req |-> NoReq]
             ELSE [sent |-> TRUE, execCalls |-> 1, err |-> NoErr, req |-> e.req]

\* client.get up to the transport call with a precondition that compares
\* the flags with zero instead of testing the Dump bits.
getSend_FlagsZero(cl, header, cmd, flags, ifi, params) ==
    IF flags = {} /\ IsZero(ifi.Index) /\ ifi.Name = ""
    THEN [sent |-> FALSE, execCalls |-> 0, err |-> errBadRequest, req |-> NoReq]
    ELSE LET e == execute(cl, cmd, flags, requestAttrs(header, ifi, params))
         IN  IF e.err # NoErr
             THEN [sent |-> FALSE, execCalls |-> 0, err |-> Error("", e.err), req |-> NoReq]
             ELSE [sent |-> TRUE, execCalls |-> 1, err |-> NoErr, req |-> e.req]

\* client.get up to the transport call: the precondition, the request
\* attributes and the call of execute.  sent tells whether Conn.Execute is
\* called, execCalls how many times; err is the error returned when it is
\* not.
getSend(cl, header, cmd, flags, ifi, params) ==
    IF "Dump" \notin flags /\ IsZero(ifi.Index) /\ ifi.Name = ""
    THEN [sent |-> FALSE, execCalls |-> 0, err |-> errBadRequest, req |-> NoReq]
    ELSE LET e == execute(cl, cmd, flags, requestAttrs(header, ifi, params))
         IN  IF e.err # NoErr
             THEN [sent |-> FALSE, execCalls |-> 0, err |-> Error("", e.err), req |-> NoReq]
             ELSE [sent |-> TRUE, execCalls |-> 1, err |-> NoErr, req |-> e.req]

\* client.get after the transport call, wrapping a *netlink.OpError only:
\* any other error goes back as it came.
getReceive_OnlyOpError(answer) ==
    IF answer.err # NoErr
    THEN [msgs |-> << >>,
          err |-> IF answer.err.type = "OpError"
                  THEN Error(answer.err.Message, answer.err)
                  ELSE answer.err]
    ELSE [msgs |-> answer.msgs, err |-> NoErr]

\* client.get after the transport call, leaving the Err field of the
\* wrapper unset.
getReceive_NoErrField(answer) ==
    IF answer.err # NoErr
    THEN [msgs |-> << >>,
          err |-> Error(IF answer.err.type = "OpError" THEN answer.err.Message ELSE "",
                        NoErr)]
    ELSE [msgs |-> answer.msgs, err |-> NoErr]

\* client.get after the transport call, never unpacking the extended
\* acknowledgement text.
getReceive_NoMessage(answer) ==
    IF answer.err # NoErr
    THEN [msgs |-> << >>, err |-> Error("", answer.err)]
    ELSE [msgs |-> answer.msgs, err |-> NoErr]

\* client.get after the transport call: a transport error is wrapped in
\* *Error together with the extended acknowledgement text of an OpError.
getReceive(answer) ==
    IF answer.err # NoErr
    THEN [msgs |-> << >>,
          err |-> Error(IF answer.err.type = "OpError" THEN answer.err.Message ELSE "",
                        answer.err)]
    ELSE [msgs |-> answer.msgs, err |-> NoErr]

(***************************************************************************)
(* The attribute decoder of the transport library, as the decoders below   *)
(* use it.  A scalar getter called on a payload of another length makes    *)
(* the decoder fail: it yields the zero value, iteration stops and Err()   *)
(* reports the failure.                                                    *)
(***************************************************************************)
\* ad.Uint8() succeeds on a payload of exactly one byte.
Uint8Ok(a) == a.form = "bytes" /\ Len(a.bytes) = 1

Uint8(a) == IF Uint8Ok(a) THEN a.bytes[1] ELSE 0

\* ad.Uint32() succeeds on a payload of exactly four bytes.
Uint32Ok(a) == a.form = "bytes" /\ Len(a.bytes) = 4

Uint32(a) == IF Uint32Ok(a) THEN a.bytes ELSE ZeroU32

\* ad.String()
String(a) == IF a.form = "string" THEN a.str ELSE ""

\* ad.Nested() can walk a payload that is a well-formed attribute list (an
\* empty payload is the empty list).
NestedOk(a) == a.form = "nested" \/ (a.form = "bytes" /\ a.bytes = << >>)

\* The outcome of a decoding step: a value, a returned error, or a panic.
Ok(v) == [status |-> "ok", val |-> v, err |-> NoErr]

Failed(v, e) == [status |-> "error", val |-> v, err |-> e]

Panic(v, why) == [status |-> "panic", val |-> v, err |-> [type |-> "panic", what |-> why]]

(***************************************************************************)
(* Words of a bitset.                                                      *)
(***************************************************************************)
RECURSIVE BitAnd(_, _)
\* x & y for two bytes.
BitAnd(x, y) ==
    IF x = 0 \/ y = 0 THEN 0
    ELSE (x % 2) * (y % 2) + 2 * BitAnd(x \div 2, y \div 2)

\* v & m for two uint32.
WordAnd(v, m) == [k \in 1..4 |-> BitAnd(v[k], m[k])]

RECURSIVE Pow2(_)
Pow2(n) == IF n = 0 THEN 1 ELSE 2 * Pow2(n - 1)

\* v&(1<<j) != 0 for a uint32 v and 0 <= j < 32.
BitSet(v, j) == (v[(j \div 8) + 1] \div Pow2(j % 8)) % 2 = 1

\* (size + 31) / 32 in uint32 arithmetic: the sum wraps around at 2^32.
WordCount(size) ==
    LET low == size[1] % 32
        q   == (size[1] \div 32) + 8 * size[2] + 2048 * size[3] + 524288 * size[4]
    IN  IF q = 134217727 /\ low >= 1
        THEN 0
        ELSE q + (IF low > 0 THEN 1 ELSE 0)

\* make([]uint32, n)
ZeroWords(n) == [k \in 1..n |-> ZeroU32]

\* parseBitset reading each word most significant byte first.
parseBitset_BigEndian(s, b) ==
    IF Len(b) \div 4 # Len(s)
    THEN Failed(s, DecodeErr("cannot store bytes in []uint32"))
    ELSE Ok([k \in 1..Len(s) |->
                << b[4 * (k - 1) + 4], b[4 * (k - 1) + 3], b[4 * (k - 1) + 2], b[4 * (k - 1) + 1] >>])

\* parseBitset: store the byte array b in the preallocated words s.
parseBitset(s, b) ==
    IF Len(b) \div 4 # Len(s)
    THEN Failed(s, DecodeErr("cannot store bytes in []uint32"))
    ELSE Ok([k \in 1..Len(s) |-> SubSeq(b, 4 * (k - 1) + 1, 4 * (k - 1) + 4)])

RECURSIVE newBitsetFrom(_, _, _)
\* The attribute loop of newBitset from attribute i on; st holds values,
\* mask and doMask.
newBitsetFrom(as, i, st) ==
    IF i > Len(as) THEN Ok(st)
    ELSE LET a == as[i] IN
         CASE a.type = "ETHTOOL_A_BITSET_NOMASK" ->
                newBitsetFrom(as, i + 1, [st EXCEPT !.doMask = FALSE])
           [] a.type = "ETHTOOL_A_BITSET_SIZE" ->
                IF ~Uint32Ok(a) THEN Failed(st, DecodeErr("uint32"))
                ELSE LET n == WordCount(Uint32(a)) IN
                     newBitsetFrom(as, i + 1,
                        [st EXCEPT !.values = ZeroWords(n),
                                   !.mask = IF st.doMask THEN ZeroWords(n) ELSE st.mask])
           [] a.type = "ETHTOOL_A_BITSET_VALUE" ->
                LET r == parseBitset(st.values, a.bytes) IN
                IF r.status # "ok" THEN Failed(st, r.err)
                ELSE newBitsetFrom(as, i + 1, [st EXCEPT !.values = r.val])
           [] a.type = "ETHTOOL_A_BITSET_MASK" ->
                LET r == parseBitset(st.mask, a.bytes) IN
                IF r.status # "ok" THEN Failed(st, r.err)
                ELSE newBitsetFrom(as, i + 1, [st EXCEPT !.mask = r.val])
           [] OTHER -> newBitsetFrom(as, i + 1, st)

\* The end of newBitset applying the mask whether or not NOMASK was present.
maskedValues_AlwaysMask(r) ==
    IF r.status # "ok" THEN Failed(<< >>, r.err)
    ELSE IF Len(r.val.mask) < Len(r.val.values)
         THEN Panic(<< >>, "index out of range")
    ELSE Ok([k \in 1..Len(r.val.values) |-> WordAnd(r.val.values[k], r.val.mask[k])])

\* The end of newBitset, r being the outcome of its attribute loop: the
\* error of the decoder, or the values, masked unless NOMASK was present.
maskedValues(r) ==
    IF r.status # "ok" THEN Failed(<< >>, r.err)
    ELSE IF ~r.val.doMask THEN Ok(r.val.values)
    ELSE IF Len(r.val.mask) < Len(r.val.values)
         THEN Panic(<< >>, "index out of range")
    ELSE Ok([k \in 1..Len(r.val.values) |-> WordAnd(r.val.values[k], r.val.mask[k])])

\* newBitset: the words of a compact bitset.
newBitset(as) ==
    maskedValues(newBitsetFrom(as, 1, [values |-> << >>, mask |-> << >>, doMask |-> TRUE]))

(***************************************************************************)
(* Response decoding.                                                      *)
(***************************************************************************)
\* The number of entries of the link mode table in this model.
NumLinkModes == 34

\* The static table of link modes: entry k describes bit k - 1.
linkModes == [k \in 1..NumLinkModes |-> [bit |-> k - 1, str |-> "linkmode" \o ToString(k - 1)]]

RECURSIVE modesOfWords(_, _, _)
\* The loops of parseAdvertisedLinkModes over bits k .. 32*len(values)-1:
\* the table entry of every set bit is appended to alms, in ascending order
\* of the bits; looking up a bit the table does not have is an
\* index-out-of-range panic.
modesOfWords(values, k, alms) ==
    IF k >= 32 * Len(values) THEN Ok(alms)
    ELSE IF ~BitSet(values[(k \div 32) + 1], k % 32) THEN modesOfWords(values, k + 1, alms)
    ELSE IF k + 1 > Len(linkModes) THEN Panic(alms, "index out of range")
    ELSE modesOfWords(values, k + 1,
            Append(alms, [Index |-> linkModes[k + 1].bit, Name |-> linkModes[k + 1].str]))

\* parseAdvertisedLinkModes looking at the first word of the bitset only.
linkModesOf_FirstWord(alms, b) ==
    IF b.status # "ok" THEN [b EXCEPT !.val = alms]
    ELSE modesOfWords(SubSeq(b.val, 1, 1), 0, alms)

\* parseAdvertisedLinkModes once newBitset has returned b.
linkModesOf(alms, b) ==
    IF b.status # "ok" THEN [b EXCEPT !.val = alms]
    ELSE modesOfWords(b.val, 0, alms)

\* parseAdvertisedLinkModes: append the link modes of a compact bitset to alms.
parseAdvertisedLinkModes(alms, as) == linkModesOf(alms, newBitset(as))

\* parseWakeOnLANModes taking the first word of a longer bitset.
wolModeOf_FirstWord(m, b) ==
    IF b.status # "ok" THEN [b EXCEPT !.val = m]
    ELSE IF Len(b.val) = 0 THEN Panic(m, "index out of range")
    ELSE Ok(b.val[1])

\* parseWakeOnLANModes once newBitset has returned b: the single word of
\* the bitset.
wolModeOf(m, b) ==
    IF b.status # "ok" THEN [b EXCEPT !.val = m]
    ELSE IF Len(b.val) > 1 THEN Panic(m, "too many Wake-on-LAN mode uint32s in bitset")
    ELSE IF Len(b.val) = 0 THEN Panic(m, "index out of range")
    ELSE Ok(b.val[1])

\* parseWakeOnLANModes: the modes bitmask of a compact bitset.
parseWakeOnLANModes(m, as) == wolModeOf(m, newBitset(as))

RECURSIVE parseInterfaceFrom(_, _, _)
\* The attribute loop of parseInterface from attribute i on.
parseInterfaceFrom(as, i, ifi) ==
    IF i > Len(as) THEN Ok(ifi)
    ELSE LET a == as[i] IN
         CASE a.type = "ETHTOOL_A_HEADER_DEV_INDEX" ->
                IF ~Uint32Ok(a) THEN Failed(ifi, DecodeErr("uint32"))
                ELSE parseInterfaceFrom(as, i + 1, [ifi EXCEPT !.Index = ToInt(Uint32(a))])
           [] a.type = "ETHTOOL_A_HEADER_DEV_NAME" ->
                parseInterfaceFrom(as, i + 1, [ifi EXCEPT !.Name = String(a)])
           [] OTHER -> parseInterfaceFrom(as, i + 1, ifi)

\* parseInterface: fill the selector of a record from a response header.
parseInterface(ifi, as) == parseInterfaceFrom(as, 1, ifi)

\* ad.Nested(parseInterface(&rec.Interface)) on attribute a of a message.
nestedInterface(rec, a) ==
    IF ~NestedOk(a) THEN Failed(rec, DecodeErr("nested"))
    ELSE LET r == parseInterface(rec.Interface, a.nested) IN
         IF r.status # "ok" THEN [r EXCEPT !.val = rec]
         ELSE Ok([rec EXCEPT !.Interface = r.val])

\* The zero values of the records.
ZeroLinkInfo == [Interface |-> EmptyInterface, Port |-> 0]

ZeroLinkMode ==
    [Interface |-> EmptyInterface, SpeedMegabits |-> GoInt(0), Ours |-> << >>,
     Peer |-> << >>, Duplex |-> 0]

ZeroLinkState == [Interface |-> EmptyInterface, Link |-> FALSE]

ZeroWakeOnLAN == [Interface |-> EmptyInterface, Modes |-> ZeroU32]

\* The attribute switch of parseLinkInfo with a default case that fails.
linkInfoAttr_RejectUnknown(li, a) ==
    CASE a.type = "ETHTOOL_A_LINKINFO_HEADER" -> nestedInterface(li, a)
      [] a.type = "ETHTOOL_A_LINKINFO_PORT" ->
            IF ~Uint8Ok(a) THEN Failed(li, DecodeErr("uint8"))
            ELSE Ok([li EXCEPT !.Port = Uint8(a)])
      [] OTHER -> Failed(li, DecodeErr("unknown attribute"))

\* One step of the attribute switch of parseLinkInfo.
linkInfoAttr(li, a) ==
    CASE a.type = "ETHTOOL_A_LINKINFO_HEADER" -> nestedInterface(li, a)
      [] a.type = "ETHTOOL_A_LINKINFO_PORT" ->
            IF ~Uint8Ok(a) THEN Failed(li, DecodeErr("uint8"))
            ELSE Ok([li EXCEPT !.Port = Uint8(a)])
      [] OTHER -> Ok(li)

\* One step of the attribute switch of parseLinkModes.
linkModesAttr(lm, a) ==
    CASE a.type = "ETHTOOL_A_LINKMODES_HEADER" -> nestedInterface(lm, a)
      [] a.type = "ETHTOOL_A_LINKMODES_OURS" ->
            IF ~NestedOk(a) THEN Failed(lm, DecodeErr("nested"))
            ELSE LET r == parseAdvertisedLinkModes(lm.Ours, a.nested) IN
                 [r EXCEPT !.val = [lm EXCEPT !.Ours = r.val]]
      [] a.type = "ETHTOOL_A_LINKMODES_PEER" ->
            IF ~NestedOk(a) THEN Failed(lm, DecodeErr("nested"))
            ELSE LET r == parseAdvertisedLinkModes(lm.Peer, a.nested) IN
                 [r EXCEPT !.val = [lm EXCEPT !.Peer = r.val]]
      [] a.type = "ETHTOOL_A_LINKMODES_SPEED" ->
            IF ~Uint32Ok(a) THEN Failed(lm, DecodeErr("uint32"))
            ELSE Ok([lm EXCEPT !.SpeedMegabits = ToInt(Uint32(a))])
      [] a.type = "ETHTOOL_A_LINKMODES_DUPLEX" ->
            IF ~Uint8Ok(a) THEN Failed(lm, DecodeErr("uint8"))
            ELSE Ok([lm EXCEPT !.Duplex = Uint8(a)])
      [] OTHER -> Ok(lm)

\* The attribute switch of parseLinkState taking only the byte 1 for true.
linkStateAttr_OnlyOne(ls, a) ==
    CASE a.type = "ETHTOOL_A_LINKSTATE_HEADER" -> nestedInterface(ls, a)
      [] a.type = "ETHTOOL_A_LINKSTATE_LINK" ->
            IF ~Uint8Ok(a) THEN Failed(ls, DecodeErr("uint8"))
            ELSE Ok([ls EXCEPT !.Link = (Uint8(a) = 1)])
      [] OTHER -> Ok(ls)

\* One step of the attribute switch of parseLinkState.
linkStateAttr(ls, a) ==
    CASE a.type = "ETHTOOL_A_LINKSTATE_HEADER" -> nestedInterface(ls, a)
      [] a.type = "ETHTOOL_A_LINKSTATE_LINK" ->
            IF ~Uint8Ok(a) THEN Failed(ls, DecodeErr("uint8"))
            ELSE Ok([ls EXCEPT !.Link = (Uint8(a) # 0)])
      [] OTHER -> Ok(ls)

\* One step of the attribute switch of parseWakeOnLAN.
wakeOnLANAttr(wol, a) ==
    CASE a.type = "ETHTOOL_A_WOL_HEADER" -> nestedInterface(wol, a)
      [] a.type = "ETHTOOL_A_WOL_MODES" ->
            IF ~NestedOk(a) THEN Failed(wol, DecodeErr("nested"))
            ELSE LET r == parseWakeOnLANModes(wol.Modes, a.nested) IN
                 [r EXCEPT !.val = [wol EXCEPT !.Modes = r.val]]
      [] OTHER -> Ok(wol)

\* The record kinds.
Kinds == {"LinkInfo", "LinkMode", "LinkState", "WakeOnLAN"}

\* The zero record and the attribute switch of each kind.
ZeroRecord(kind) ==
    CASE kind = "LinkInfo" -> ZeroLinkInfo
      [] kind = "LinkMode" -> ZeroLinkMode
      [] kind = "LinkState" -> ZeroLinkState
      [] kind = "WakeOnLAN" -> ZeroWakeOnLAN

attrStep(kind, rec, a) ==
    CASE kind = "LinkInfo" -> linkInfoAttr(rec, a)
      [] kind = "LinkMode" -> linkModesAttr(rec, a)
      [] kind = "LinkState" -> linkStateAttr(rec, a)
      [] kind = "WakeOnLAN" -> wakeOnLANAttr(rec, a)

RECURSIVE parseMessageFrom(_, _, _, _)
\* The loop "for ad.Next()" over the attributes of one message, from
\* attribute i on, r being the outcome so far: it ends at the first failure.
parseMessageFrom(kind, as, i, r) ==
    IF i > Len(as) \/ r.status # "ok" THEN r
    ELSE parseMessageFrom(kind, as, i + 1, attrStep(kind, r.val, as[i]))

\* One message of the parse functions, a message that fails to decode being
\* left out of the result.
appendParsed_SkipFailed(recs, m) ==
    CASE m.status = "error" -> Ok(recs)
      [] m.status = "panic" -> Panic(<< >>, m.err.what)
      [] OTHER -> Ok(Append(recs, m.val))

\* One message of the parse functions with one record variable for all the
\* messages: a message without header keeps the selector of the message
\* before it.
appendParsed_CarryOver(recs, m) ==
    CASE m.status = "error" -> Failed(<< >>, m.err)
      [] m.status = "panic" -> Panic(<< >>, m.err.what)
      [] OTHER ->
            Ok(Append(recs,
                      IF m.val.Interface = EmptyInterface /\ recs # << >>
                      THEN [m.val EXCEPT !.Interface = recs[Len(recs)].Interface]
                      ELSE m.val))

\* One message of the parse functions, with the record put in front of the
\* records parsed so far.
appendParsed_Prepend(recs, m) ==
    CASE m.status = "error" -> Failed(<< >>, m.err)
      [] m.status = "panic" -> Panic(<< >>, m.err.what)
      [] OTHER -> Ok(<< m.val >> \o recs)

\* One message of the parse functions: m is the outcome of its attribute
\* loop.  The record is appended to recs; a failing message makes the
\* result nil.
appendParsed(recs, m) ==
    CASE m.status = "error" -> Failed(<< >>, m.err)
      [] m.status = "panic" -> Panic(<< >>, m.err.what)
      [] OTHER -> Ok(Append(recs, m.val))

RECURSIVE parseFrom(_, _, _, _)
\* The loop over the messages of parseLinkInfo, parseLinkModes,
\* parseLinkState and parseWakeOnLAN, from message i on; r holds the
\* records appended so far, or the failure that ended the loop.
parseFrom(kind, msgs, i, r) ==
    IF i > Len(msgs) \/ r.status # "ok" THEN r
    ELSE parseFrom(kind, msgs, i + 1,
            appendParsed(r.val, parseMessageFrom(kind, msgs[i], 1, Ok(ZeroRecord(kind)))))

parseLinkInfo(msgs) == parseFrom("LinkInfo", msgs, 1, Ok(<< >>))

parseLinkModes(msgs) == parseFrom("LinkMode", msgs, 1, Ok(<< >>))

parseLinkState(msgs) == parseFrom("LinkState", msgs, 1, Ok(<< >>))

parseWakeOnLAN(msgs) == parseFrom("WakeOnLAN", msgs, 1, Ok(<< >>))

(***************************************************************************)
(* The operations of the client.                                           *)
(***************************************************************************)
DumpOps == {"LinkInfos", "LinkModes", "LinkStates", "WakeOnLANs"}

GetOps == {"LinkInfo", "LinkMode", "LinkState", "WakeOnLAN"}

SetOps == {"SetWakeOnLAN"}

Ops == DumpOps \cup GetOps \cup SetOps

\* The record kind an operation is about.
KindOf(o) ==
    CASE o \in {"LinkInfos", "LinkInfo"} -> "LinkInfo"
      [] o \in {"LinkModes", "LinkMode"} -> "LinkMode"
      [] o \in {"LinkStates", "LinkState"} -> "LinkState"
      [] o \in {"WakeOnLANs", "WakeOnLAN", "SetWakeOnLAN"} -> "WakeOnLAN"

\* The header tag and the command linkInfo, linkMode, linkState, wakeOnLAN
\* and SetWakeOnLAN pass to client.get.
HeaderOf(o) ==
    CASE KindOf(o) = "LinkInfo" -> "ETHTOOL_A_LINKINFO_HEADER"
      [] KindOf(o) = "LinkMode" -> "ETHTOOL_A_LINKMODES_HEADER"
      [] KindOf(o) = "LinkState" -> "ETHTOOL_A_LINKSTATE_HEADER"
      [] KindOf(o) = "WakeOnLAN" -> "ETHTOOL_A_WOL_HEADER"

CommandOf(o) ==
    CASE o \in SetOps -> "ETHTOOL_MSG_WOL_SET"
      [] KindOf(o) = "LinkInfo" -> "ETHTOOL_MSG_LINKINFO_GET"
      [] KindOf(o) = "LinkMode" -> "ETHTOOL_MSG_LINKMODES_GET"
      [] KindOf(o) = "LinkState" -> "ETHTOOL_MSG_LINKSTATE_GET"
      [] KindOf(o) = "WakeOnLAN" -> "ETHTOOL_MSG_WOL_GET"

\* The netlink header flags each entry point passes to client.get.
FlagsOf(o) ==
    CASE o \in DumpOps -> {"Dump"}
      [] o \in GetOps -> {}
      [] o \in SetOps -> {"Acknowledge"}

\* The parser of each record kind.
parse(kind, msgs) ==
    CASE kind = "LinkInfo" -> parseLinkInfo(msgs)
      [] kind = "LinkMode" -> parseLinkModes(msgs)
      [] kind = "LinkState" -> parseLinkState(msgs)
      [] kind = "WakeOnLAN" -> parseWakeOnLAN(msgs)

\* What an operation hands back: nothing yet, returned values, or a panic.
NoRecord == [nil |-> TRUE]

NoRet == [status |-> "none", rec |-> NoRecord, list |-> << >>, err |-> NoErr]

RetErr(e) == [status |-> "returned", rec |-> NoRecord, list |-> << >>, err |-> e]

RetList(l) == [status |-> "returned", rec |-> NoRecord, list |-> l, err |-> NoErr]

RetRecord(r) == [status |-> "returned", rec |-> r, list |-> << >>, err |-> NoErr]

RetPanic(why) ==
    [status |-> "panic", rec |-> NoRecord, list |-> << >>, err |-> [type |-> "panic", what |-> why]]

\* linkInfo, linkMode, linkState and wakeOnLAN after the transport call:
\* the error of get, or the parsed messages.
shared(kind, answer) ==
    LET g == getReceive(answer) IN
    IF g.err # NoErr THEN Failed(<< >>, g.err) ELSE parse(kind, g.msgs)

\* LinkInfos, LinkModes, LinkStates and WakeOnLANs once the shared logic has
\* returned r.
dumpResult(r) ==
    CASE r.status = "error" -> RetErr(r.err)
      [] r.status = "panic" -> RetPanic(r.err.what)
      [] OTHER -> RetList(r.val)

\* A targeted get that hands back the first record without counting.
getResult_NoCount(r) ==
    CASE r.status = "error" -> RetErr(r.err)
      [] r.status = "panic" -> RetPanic(r.err.what)
      [] Len(r.val) = 0 -> RetPanic("unexpected number of messages")
      [] OTHER -> RetRecord(r.val[1])

\* LinkInfo, LinkMode, LinkState and WakeOnLAN once the shared logic has
\* returned r: anything but exactly one parsed message is a panic.
getResult(r) ==
    CASE r.status = "error" -> RetErr(r.err)
      [] r.status = "panic" -> RetPanic(r.err.what)
      [] Len(r.val) # 1 -> RetPanic("unexpected number of messages")
      [] OTHER -> RetRecord(r.val[1])

\* SetWakeOnLAN decoding the acknowledgement like a read.
setResult_Decodes(answer) ==
    LET r == shared("WakeOnLAN", answer) IN
    CASE r.status = "error" -> RetErr(r.err)
      [] r.status = "panic" -> RetPanic(r.err.what)
      [] OTHER -> RetErr(NoErr)

\* SetWakeOnLAN after the transport call: only the error of get.
setResult(answer) == RetErr(getReceive(answer).err)

\* The result of operation o once the transport has answered.
resultOf(o, answer) ==
    CASE o \in DumpOps -> dumpResult(shared(KindOf(o), answer))
      [] o \in GetOps -> getResult(shared(KindOf(o), answer))
      [] o \in SetOps -> setResult(answer)

(***************************************************************************)
(* The environment: the callers' arguments and the transport's answers.    *)
(***************************************************************************)
\* The selectors callers pass.
Indexes == {GoInt(0), GoInt(1), GoInt(2), MinusOne, TwoTo32, TwoTo32Plus2}

Names == {"", "eth0", LongName}

Interfaces == [Index : Indexes, Name : Names]

\* The Wake-on-LAN modes callers pass to SetWakeOnLAN (Unicast|Magic is 34).
ModesValues == {ZeroU32, U32(34), << 255, 255, 255, 255 >>}

\* A response header group.
ResponseHeader(kind, index, name) ==
    AttrNested(HeaderOf(kind),
               << AttrUint32("ETHTOOL_A_HEADER_DEV_INDEX", U32(index)),
                  AttrString("ETHTOOL_A_HEADER_DEV_NAME", name) >>)

\* An attribute no decoder knows.
UnknownAttr == AttrBytes("UNKNOWN", << 7 >>)

\* A compact bitset group.
Bitset(size, value, mask) ==
    << AttrUint32("ETHTOOL_A_BITSET_SIZE", U32(size)),
       AttrBytes("ETHTOOL_A_BITSET_VALUE", value),
       AttrBytes("ETHTOOL_A_BITSET_MASK", mask) >>

\* The response messages of each kind the transport answers with: well
\* formed ones, ones with absent or unknown attributes, and malformed ones.
LinkInfoMessages ==
    { << ResponseHeader("LinkInfo", 1, "eth0"), AttrUint8("ETHTOOL_A_LINKINFO_PORT", 5) >>,
      << AttrUint8("ETHTOOL_A_LINKINFO_PORT", 255) >>,
      << UnknownAttr, ResponseHeader("LinkInfo", 2, "eth1"),
         AttrUint8("ETHTOOL_A_LINKINFO_PORT", 0) >>,
      << ResponseHeader("LinkInfo", 1, "eth0"),
         AttrBytes("ETHTOOL_A_LINKINFO_PORT", << 5, 0 >>) >>,
      << >> }

LinkStateMessages ==
    { << ResponseHeader("LinkState", 1, "eth0"), AttrUint8("ETHTOOL_A_LINKSTATE_LINK", 1) >>,
      << ResponseHeader("LinkState", 2, "eth1"), AttrUint8("ETHTOOL_A_LINKSTATE_LINK", 0) >>,
      << AttrUint8("ETHTOOL_A_LINKSTATE_LINK", 2) >>,
      << ResponseHeader("LinkState", 1, "eth0"),
         AttrBytes("ETHTOOL_A_LINKSTATE_LINK", << >>) >> }

LinkModeMessages ==
    { << ResponseHeader("LinkMode", 1, "eth0"),
         AttrUint32("ETHTOOL_A_LINKMODES_SPEED", U32(1000)),
         AttrUint8("ETHTOOL_A_LINKMODES_DUPLEX", 1),
         AttrNested("ETHTOOL_A_LINKMODES_OURS",
                    Bitset(34, << 5, 0, 0, 0, 2, 0, 0, 0 >>, << 255, 255, 255, 255, 3, 0, 0, 0 >>)),
         AttrNested("ETHTOOL_A_LINKMODES_PEER",
                    Bitset(34, << 3, 0, 0, 0, 0, 0, 0, 0 >>, << 1, 0, 0, 0, 0, 0, 0, 0 >>)) >>,
      << ResponseHeader("LinkMode", 2, "eth1"),
         AttrNested("ETHTOOL_A_LINKMODES_OURS",
                    << AttrBytes("ETHTOOL_A_BITSET_NOMASK", << >>),
                       AttrUint32("ETHTOOL_A_BITSET_SIZE", U32(8)),
                       AttrBytes("ETHTOOL_A_BITSET_VALUE", << 6, 0, 0, 0 >>) >>) >>,
      << ResponseHeader("LinkMode", 1, "eth0"),
         AttrNested("ETHTOOL_A_LINKMODES_OURS",
                    Bitset(34, << 5, 0, 0, 0 >>, << 5, 0, 0, 0 >>)) >>,
      << AttrNested("ETHTOOL_A_LINKMODES_OURS",
                    Bitset(64, << 0, 0, 0, 0, 0, 0, 0, 128 >>, << 0, 0, 0, 0, 0, 0, 0, 128 >>)) >>,
      << >> }

WakeOnLANMessages ==
    { << ResponseHeader("WakeOnLAN", 1, "eth0"),
         AttrNested("ETHTOOL_A_WOL_MODES", Bitset(8, U32(34), U32(255))) >>,
      << ResponseHeader("WakeOnLAN", 2, "eth1"),
         AttrBytes("ETHTOOL_A_WOL_SOPASS", << 1, 2, 3, 4, 5, 6 >>) >>,
      << ResponseHeader("WakeOnLAN", 1, "eth0"),
         AttrNested("ETHTOOL_A_WOL_MODES", Bitset(8, << 34, 0, 0 >>, U32(255))) >>,
      << AttrNested("ETHTOOL_A_WOL_MODES",
                    Bitset(40, U32(34) \o U32(1), U32(255) \o U32(1))) >>,
      << AttrNested("ETHTOOL_A_WOL_MODES", << >>) >> }

Messages(kind) ==
    CASE kind = "LinkInfo" -> LinkInfoMessages
      [] kind = "LinkMode" -> LinkModeMessages
      [] kind = "LinkState" -> LinkStateMessages
      [] kind = "WakeOnLAN" -> WakeOnLANMessages

\* The sequences of at most n elements of S.
SeqUpTo(S, n) == UNION { [1..k -> S] : k \in 0..n }

\* The errors Conn.Execute returns.
TransportErrors == { OpError(e, m) : e \in Errnos, m \in ExtAckTexts } \cup { OpaqueErr }

\* What Conn.Execute returns: messages and no error, or no messages and an
\* error.
Answers(kind) ==
    { [msgs |-> ms, err |-> NoErr] : ms \in SeqUpTo(Messages(kind), MaxMsgs) }
    \cup { [msgs |-> << >>, err |-> e] : e \in TransportErrors }

NoAnswer == [msgs |-> << >>, err |-> NoErr]

(***************************************************************************)
(* The state machine.                                                      *)
(***************************************************************************)
\* The goroutines that call the client.
Callers == {"caller"}

VARIABLES
    client,   \* the fields of the client: connection, family ID, monitor group ID
    calls,    \* for each caller, the operation it is in
    codec     \* the encoder or decoder under study, its input and its output

vars == << client, calls, codec >>

\* No encoder or decoder has run.
NoCodec == [fn |-> "none", in |-> << >>, out |-> << >>]

\* A caller that is in no operation.
Idle ==
    [pc |-> "idle", op |-> "none", ifi |-> EmptyInterface, modes |-> ZeroU32,
     req |-> NoReq, execCalls |-> 0, answered |-> FALSE, answer |-> NoAnswer,
     ret |-> NoRet]

\* initClient: the client holds the connection, the family ID and the ID of
\* the monitor multicast group.
Init ==
    /\ client = [c |-> "conn", family |-> 20, monitorID |-> 1]
    /\ calls = [p \in Callers |-> Idle]
    /\ codec = NoCodec

\* Caller p enters operation o with selector ifi (and modes, for a set):
\* client.get checks the precondition, builds the request and, unless it
\* returns early, calls Conn.Execute.
Invoke(p, o, ifi, modes) ==
    /\ LET s == getSend(client, HeaderOf(o), CommandOf(o), FlagsOf(o), ifi,
                        IF o \in SetOps THEN encode([Interface |-> ifi, Modes |-> modes])
                        ELSE << >>)
       IN  calls' = [calls EXCEPT ![p] =
                [Idle EXCEPT !.op = o, !.ifi = ifi, !.modes = modes,
                             !.pc = IF s.sent THEN "wait" ELSE "done",
                             !.req = s.req,
                             !.execCalls = s.execCalls,
                             !.ret = IF s.sent THEN NoRet ELSE RetErr(s.err)]]
    /\ UNCHANGED << client, codec >>

LinkInfos(p) ==
    /\ calls[p].pc = "idle"
    /\ Invoke(p, "LinkInfos", EmptyInterface, ZeroU32)

LinkInfo(p, ifi) ==
    /\ calls[p].pc = "idle"
    /\ Invoke(p, "LinkInfo", ifi, ZeroU32)

LinkModes(p) ==
    /\ calls[p].pc = "idle"
    /\ Invoke(p, "LinkModes", EmptyInterface, ZeroU32)

LinkMode(p, ifi) ==
    /\ calls[p].pc = "idle"
    /\ Invoke(p, "LinkMode", ifi, ZeroU32)

LinkStates(p) ==
    /\ calls[p].pc = "idle"
    /\ Invoke(p, "LinkStates", EmptyInterface, ZeroU32)

LinkState(p, ifi) ==
    /\ calls[p].pc = "idle"
    /\ Invoke(p, "LinkState", ifi, ZeroU32)

WakeOnLANs(p) ==
    /\ calls[p].pc = "idle"
    /\ Invoke(p, "WakeOnLANs", EmptyInterface, ZeroU32)

WakeOnLAN(p, ifi) ==
    /\ calls[p].pc = "idle"
    /\ Invoke(p, "WakeOnLAN", ifi, ZeroU32)

SetWakeOnLAN(p, wol) ==
    /\ calls[p].pc = "idle"
    /\ Invoke(p, "SetWakeOnLAN", wol.Interface, wol.Modes)

\* The rest of the operation with one retry: after a failed round trip the
\* request is handed to Conn.Execute a second time.
finish_Retry(c, answer) ==
    IF answer.err # NoErr /\ c.execCalls < 2
    THEN [c EXCEPT !.execCalls = c.execCalls + 1, !.answered = TRUE, !.answer = answer]
    ELSE [c EXCEPT !.pc = "done", !.answered = TRUE, !.answer = answer,
                   !.ret = resultOf(c.op, answer)]

\* The rest of the operation with the received messages kept in a buffer
\* that all the calls share: a call parses what the latest answered call
\* received.
finish_SharedMessages(c, answer) ==
    [c EXCEPT !.pc = "done", !.answered = TRUE, !.answer = answer,
              !.ret = resultOf(c.op,
                               IF \E q \in DOMAIN calls : calls[q].answered
                               THEN calls[CHOOSE q \in DOMAIN calls : calls[q].answered].answer
                               ELSE answer)]

\* The rest of the operation of call c once Conn.Execute has returned
\* answer: the operation ends with its result, and calls Conn.Execute no
\* more.
finish(c, answer) ==
    [c EXCEPT !.pc = "done", !.answered = TRUE, !.answer = answer,
              !.ret = resultOf(c.op, answer)]

\* Conn.Execute returns an answer to caller p, and the operation runs to its
\* end: the error is wrapped or the messages are parsed and counted.
ExecuteReturns(p) ==
    /\ calls[p].pc = "wait"
    /\ \E answer \in Answers(KindOf(calls[p].op)) :
            calls' = [calls EXCEPT ![p] = finish(calls[p], answer)]
    /\ UNCHANGED << client, codec >>

\* Caller p takes the result of its operation and is free to call again.
Return(p) ==
    /\ calls[p].pc = "done"
    /\ calls' = [calls EXCEPT ![p] = Idle]
    /\ UNCHANGED << client, codec >>

Next ==
    \E p \in Callers :
        \/ LinkInfos(p)
        \/ \E ifi \in Interfaces : LinkInfo(p, ifi)
        \/ LinkModes(p)
        \/ \E ifi \in Interfaces : LinkMode(p, ifi)
        \/ LinkStates(p)
        \/ \E ifi \in Interfaces : LinkState(p, ifi)
        \/ WakeOnLANs(p)
        \/ \E ifi \in Interfaces : WakeOnLAN(p, ifi)
        \/ \E ifi \in Interfaces, m \in ModesValues :
                SetWakeOnLAN(p, [Interface |-> ifi, Modes |-> m])
        \/ ExecuteReturns(p)
        \/ Return(p)

Spec == Init /\ [][Next]_vars

\* The types of the state.
TypeOK ==
    /\ client.family = 20
    /\ \A p \in Callers :
        /\ calls[p].pc \in {"idle", "wait", "done"}
        /\ calls[p].op \in Ops \cup {"none"}
        /\ calls[p].execCalls \in Nat

(***************************************************************************)
(* The encoders and decoders on their own: each action applies one of them *)
(* to an input and records the output.                                     *)
(***************************************************************************)
\* The largest number of link modes of an encoded list, the whole table
\* aside.
MaxModes == 2

\* The link mode of bit i of the table.
ModeOf(i) == [Index |-> linkModes[i + 1].bit, Name |-> linkModes[i + 1].str]

\* The link modes that the lists of several modes are made of: the bits at
\* both ends of a byte, of a word and of the table.
ModePool == { ModeOf(i) : i \in {0, 7, 8, 9, 31, 32, Len(linkModes) - 1} }

\* The lists of link modes that are encoded: no mode, every mode of the
\* table alone, up to MaxModes modes of ModePool in any order and with
\* repetitions, and the whole table.
ModeLists ==
    UNION { [1..n -> ModePool] : n \in 0..MaxModes }
    \cup { << ModeOf(i) >> : i \in 0..(Len(linkModes) - 1) }
    \cup { [k \in 1..Len(linkModes) |-> ModeOf(k - 1)] }

RECURSIVE packByte(_, _, _)
\* The byte byteIndex of packALMBitset, from bit bitIndex on:
\* b[alm.Index / 8] |= 1 << (alm.Index % 8) for every alm.
packByte(alms, byteIndex, bitIndex) ==
    IF bitIndex > 7 THEN 0
    ELSE (IF \E n \in DOMAIN alms : alms[n].Index = 8 * byteIndex + bitIndex
          THEN Pow2(bitIndex) ELSE 0)
         + packByte(alms, byteIndex, bitIndex + 1)

\* packALMBitset: the bytes of the bitset of alms, whole words of the table.
packALMBitset(alms) ==
    [k \in 1..(((Len(linkModes) + 31) \div 32) * 4) |-> packByte(alms, k - 1, 0)]

\* packALMs: the compact bitset group of alms, SIZE the length of the table
\* and MASK the same bytes as VALUE.
packALMs(alms) ==
    << AttrUint32("ETHTOOL_A_BITSET_SIZE", U32(Len(linkModes))),
       AttrBytes("ETHTOOL_A_BITSET_VALUE", packALMBitset(alms)),
       AttrBytes("ETHTOOL_A_BITSET_MASK", packALMBitset(alms)) >>

\* The list alms is encoded by packALMs and decoded by
\* parseAdvertisedLinkModes.
LinkModesRoundTrip(alms) ==
    /\ codec.fn = "none"
    /\ codec' = [fn |-> "linkModes", in |-> alms,
                 out |-> parseAdvertisedLinkModes(<< >>, packALMs(alms))]
    /\ UNCHANGED << client, calls >>

\* The VALUE and MASK payloads of the bitsets that are decoded: two words.
BitsetBytes ==
    { w1 \o w2 : w1 \in { ZeroU32, << 5, 0, 0, 128 >>, << 255, 255, 255, 255 >> },
                 w2 \in { ZeroU32, << 3, 0, 0, 0 >> } }

\* The compact bitset groups that are decoded: VALUE and MASK in either
\* order, MASK absent, and NOMASK before or after the other attributes.
BitsetGroups ==
    UNION { LET size  == AttrUint32("ETHTOOL_A_BITSET_SIZE", U32(NumLinkModes))
                value == AttrBytes("ETHTOOL_A_BITSET_VALUE", v)
                mask  == AttrBytes("ETHTOOL_A_BITSET_MASK", m)
                nom   == AttrBytes("ETHTOOL_A_BITSET_NOMASK", << >>)
            IN  { << size, value, mask >>,
                  << size, mask, value >>,
                  << size, value >>,
                  << nom, size, value >>,
                  << size, value, mask, nom >>,
                  << nom, size, value, mask >> } : v \in BitsetBytes, m \in BitsetBytes }

\* The longest VALUE or MASK array of the groups of LengthGroups, in bytes.
MaxBytes == 9

\* Compact bitset groups whose VALUE or MASK array has any length up to
\* MaxBytes, for a SIZE of one word and for a SIZE of two words.
LengthGroups ==
    UNION { LET size  == AttrUint32("ETHTOOL_A_BITSET_SIZE", sz)
                array == [k \in 1..n |-> k]
                whole == [k \in 1..(4 * WordCount(sz)) |-> 255]
                nom   == AttrBytes("ETHTOOL_A_BITSET_NOMASK", << >>)
            IN  { << nom, size, AttrBytes("ETHTOOL_A_BITSET_VALUE", array) >>,
                  << size, AttrBytes("ETHTOOL_A_BITSET_VALUE", array),
                     AttrBytes("ETHTOOL_A_BITSET_MASK", whole) >>,
                  << size, AttrBytes("ETHTOOL_A_BITSET_VALUE", whole),
                     AttrBytes("ETHTOOL_A_BITSET_MASK", array) >> } :
            sz \in { U32(8), U32(NumLinkModes) }, n \in 0..MaxBytes }

\* The compact bitset group as is decoded by newBitset.
DecodeBitset(as) ==
    /\ codec.fn = "none"
    /\ codec' = [fn |-> "bitset", in |-> as, out |-> newBitset(as)]
    /\ UNCHANGED << client, calls >>

\* The Wake-on-LAN bitmasks that are encoded.
WOLModes == [1..4 -> {0, 1, 34, 128, 255}]

\* encodeWOL: the response message for wol: the header, then wol.encode.
encodeWOL(wol) ==
    << AttrNested("ETHTOOL_A_WOL_HEADER",
          << AttrUint32("ETHTOOL_A_HEADER_DEV_INDEX", ToUint32(wol.Interface.Index)),
             AttrString("ETHTOOL_A_HEADER_DEV_NAME", wol.Interface.Name) >>) >>
    \o encode(wol)

\* The record wol is encoded by WakeOnLAN.encode and decoded by
\* parseWakeOnLAN.
WakeOnLANRoundTrip(wol) ==
    /\ codec.fn = "none"
    /\ codec' = [fn |-> "wol", in |-> wol, out |-> parseWakeOnLAN(<< encodeWOL(wol) >>)]
    /\ UNCHANGED << client, calls >>

\* A link state message whose link attribute is the byte b is decoded by
\* parseLinkState.
DecodeLinkState(b) ==
    /\ codec.fn = "none"
    /\ codec' = [fn |-> "linkState", in |-> b,
                 out |-> parseLinkState(<< << ResponseHeader("LinkState", 1, "eth0"),
                                              AttrUint8("ETHTOOL_A_LINKSTATE_LINK", b) >> >>)]
    /\ UNCHANGED << client, calls >>

\* One encoder or decoder is applied to one input.
\* The SIZE values whose word count is computed: the low byte around the
\* multiples of 32, the other bytes at both ends of their range.
SizeValues ==
    { << b1, b2, b3, b4 >> : b1 \in {0, 1, 31, 32, 33, 223, 224, 225, 255},
                             b2 \in {0, 1, 255}, b3 \in {0, 255}, b4 \in {0, 127, 255} }

\* The SIZE case of the bitset decoder computes the number of words to
\* allocate for SIZE = size: n := (ad.Uint32() + 31) / 32.
AllocateWords(size) ==
    /\ codec.fn = "none"
    /\ codec' = [fn |-> "size", in |-> size, out |-> WordCount(size)]
    /\ UNCHANGED << client, calls >>

\* The bytes of n words in which the bits of the set bits are set.
BytesOfBits(n, bits) ==
    [k \in 1..(4 * n) |-> IF \E b \in bits : b \div 8 = k - 1
                          THEN Pow2((CHOOSE b \in bits : b \div 8 = k - 1) % 8)
                          ELSE 0]

\* Link mode bitsets with one bit set in VALUE and in MASK: a bit of the
\* table, the last bit of the table, the first bit after the table and the
\* last bit of the second word, for a SIZE of 8, of the table length and of
\* 64 bits.
ModeGroups ==
    UNION { { Bitset(sz, BytesOfBits((sz + 31) \div 32, {b}),
                     BytesOfBits((sz + 31) \div 32, {b})) :
                b \in { x \in {0, 9, NumLinkModes - 1, NumLinkModes, 63} :
                            x < 32 * ((sz + 31) \div 32) } } :
            sz \in {8, NumLinkModes, 64} }

\* The compact bitset group as is decoded by parseAdvertisedLinkModes into
\* an empty list.
DecodeLinkModes(as) ==
    /\ codec.fn = "none"
    /\ codec' = [fn |-> "modes", in |-> as, out |-> parseAdvertisedLinkModes(<< >>, as)]
    /\ UNCHANGED << client, calls >>

\* The words of the Wake-on-LAN bitsets that are decoded.
WOLWords == { U32(34), << 255, 255, 255, 255 >>, << 0, 0, 0, 128 >> }

\* Wake-on-LAN bitset groups of no word (SIZE absent or 0), of one word and
\* of two words, with a mask of all ones or without mask.
WOLGroups ==
    { << >>, << AttrBytes("ETHTOOL_A_BITSET_NOMASK", << >>) >>,
      << AttrUint32("ETHTOOL_A_BITSET_SIZE", ZeroU32) >>,
      Bitset(0, << >>, << >>) }
    \cup UNION { { Bitset(sz, w, << 255, 255, 255, 255 >>),
                   << AttrBytes("ETHTOOL_A_BITSET_NOMASK", << >>),
                      AttrUint32("ETHTOOL_A_BITSET_SIZE", U32(sz)),
                      AttrBytes("ETHTOOL_A_BITSET_VALUE", w) >> } :
                 sz \in {1, 8, 32}, w \in WOLWords }
    \cup UNION { { Bitset(sz, w \o v, << 255, 255, 255, 255, 255, 255, 255, 255 >>),
                   << AttrBytes("ETHTOOL_A_BITSET_NOMASK", << >>),
                      AttrUint32("ETHTOOL_A_BITSET_SIZE", U32(sz)),
                      AttrBytes("ETHTOOL_A_BITSET_VALUE", w \o v) >> } :
                 sz \in {33, 40, 64}, w \in WOLWords, v \in { ZeroU32, U32(1) } }

\* The compact bitset group as is decoded by parseWakeOnLANModes into a
\* zero WOLMode.
DecodeWakeOnLANModes(as) ==
    /\ codec.fn = "none"
    /\ codec' = [fn |-> "wolModes", in |-> as, out |-> parseWakeOnLANModes(ZeroU32, as)]
    /\ UNCHANGED << client, calls >>

\* The attributes as with attribute a put after the first i of them.
InsertAt(as, i, a) == SubSeq(as, 1, i) \o << a >> \o SubSeq(as, i + 1, Len(as))

\* The attributes no case of parseInterface handles: an unknown tag, and the
\* flags attribute of the header.
UnknownHeaderAttrs == { UnknownAttr, AttrUint32("ETHTOOL_A_HEADER_FLAGS", CompactBitsets) }

\* The message m of a kind with one more attribute that no decoder handles,
\* at any place among its attributes or among those of its header group.
WithUnknown(kind, m) ==
    { InsertAt(m, i, UnknownAttr) : i \in 0..Len(m) }
    \cup UNION { { [m EXCEPT ![h] = AttrNested(m[h].type, InsertAt(m[h].nested, i, u))] :
                        i \in 0..Len(m[h].nested), u \in UnknownHeaderAttrs } :
                 h \in { k \in DOMAIN m : m[k].type = HeaderOf(kind) /\ m[k].form = "nested" } }

\* The message mu, which is m with one more attribute that no decoder
\* handles, is decoded by the parse function of its kind.
DecodeUnknown(kind, m, mu) ==
    /\ codec.fn = "none"
    /\ codec' = [fn |-> "unknown", in |-> [kind |-> kind, plain |-> m, extended |-> mu],
                 out |-> parse(kind, << mu >>)]
    /\ UNCHANGED << client, calls >>

CodecNext ==
    \/ \E alms \in ModeLists : LinkModesRoundTrip(alms)
    \/ \E as \in BitsetGroups \cup LengthGroups : DecodeBitset(as)
    \/ \E m \in WOLModes :
            WakeOnLANRoundTrip([Interface |-> [Index |-> GoInt(2), Name |-> "eth1"], Modes |-> m])
    \/ \E b \in Byte : DecodeLinkState(b)
    \/ \E as \in WOLGroups : DecodeWakeOnLANModes(as)
    \/ \E as \in ModeGroups : DecodeLinkModes(as)
    \/ \E size \in SizeValues : AllocateWords(size)
    \/ \E kind \in Kinds : \E m \in Messages(kind) : \E mu \in WithUnknown(kind, m) :
            DecodeUnknown(kind, m, mu)

CodecSpec == Init /\ [][CodecNext]_vars

(***************************************************************************)
(* The client of the platforms other than Linux (client_others.go): every  *)
(* function returns errUnsupported and nothing else.                       *)
(***************************************************************************)
\* errUnsupported: "ethtool: this library is not supported on GOOS/GOARCH".
errUnsupported == [type |-> "errUnsupported"]

\* The operations of the client of the other platforms, newClient included.
OthersOps ==
    {"New", "LinkInfos", "LinkInfo", "LinkModes", "LinkMode",
     "WakeOnLANs", "WakeOnLAN", "SetWakeOnLAN", "Close"}

\* The receivers the methods are called on: the nil *client that newClient
\* returns, and a zero client{}.  No method reads its receiver.
OthersReceivers == {"nil", "zero"}

\* What function o returns, Close returning no error.
othersResult_CloseOK(o) ==
    IF o = "Close" THEN RetErr(NoErr) ELSE RetErr(errUnsupported)

\* What function o of client_others.go returns: nil (or nothing) and
\* errUnsupported, whatever its argument.
othersResult(o) ==
    CASE o = "New"          -> RetErr(errUnsupported)
      [] o = "LinkInfos"    -> RetErr(errUnsupported)
      [] o = "LinkInfo"     -> RetErr(errUnsupported)
      [] o = "LinkModes"    -> RetErr(errUnsupported)
      [] o = "LinkMode"     -> RetErr(errUnsupported)
      [] o = "WakeOnLANs"   -> RetErr(errUnsupported)
      [] o = "WakeOnLAN"    -> RetErr(errUnsupported)
      [] o = "SetWakeOnLAN" -> RetErr(errUnsupported)
      [] o = "Close"        -> RetErr(errUnsupported)

\* No operation has been called; the caller holds one of the receivers.
OthersInit ==
    /\ client \in { [c |-> r] : r \in OthersReceivers }
    /\ calls = [p \in Callers |-> Idle]
    /\ codec = NoCodec

\* Caller p calls function o with the arguments ifi and modes, and the
\* function returns at once: nothing is sent.
OthersCall(p, o, ifi, modes) ==
    /\ calls' = [calls EXCEPT ![p] =
            [Idle EXCEPT !.op = o, !.ifi = ifi, !.modes = modes, !.pc = "done",
                         !.ret = othersResult(o)]]
    /\ UNCHANGED << client, codec >>

OthersNew(p) ==
    /\ calls[p].pc = "idle"
    /\ OthersCall(p, "New", EmptyInterface, ZeroU32)

OthersLinkInfos(p) ==
    /\ calls[p].pc = "idle"
    /\ OthersCall(p, "LinkInfos", EmptyInterface, ZeroU32)

OthersLinkInfo(p, ifi) ==
    /\ calls[p].pc = "idle"
    /\ OthersCall(p, "LinkInfo", ifi, ZeroU32)

OthersLinkModes(p) ==
    /\ calls[p].pc = "idle"
    /\ OthersCall(p, "LinkModes", EmptyInterface, ZeroU32)

OthersLinkMode(p, ifi) ==
    /\ calls[p].pc = "idle"
    /\ OthersCall(p, "LinkMode", ifi, ZeroU32)

OthersWakeOnLANs(p) ==
    /\ calls[p].pc = "idle"
    /\ OthersCall(p, "WakeOnLANs", EmptyInterface, ZeroU32)

OthersWakeOnLAN(p, ifi) ==
    /\ calls[p].pc = "idle"
    /\ OthersCall(p, "WakeOnLAN", ifi, ZeroU32)

OthersSetWakeOnLAN(p, wol) ==
    /\ calls[p].pc = "idle"
    /\ OthersCall(p, "SetWakeOnLAN", wol.Interface, wol.Modes)

OthersClose(p) ==
    /\ calls[p].pc = "idle"
    /\ OthersCall(p, "Close", EmptyInterface, ZeroU32)

OthersNext ==
    \E p \in Callers :
        \/ OthersNew(p)
        \/ OthersLinkInfos(p)
        \/ \E ifi \in Interfaces : OthersLinkInfo(p, ifi)
        \/ OthersLinkModes(p)
        \/ \E ifi \in Interfaces : OthersLinkMode(p, ifi)
        \/ OthersWakeOnLANs(p)
        \/ \E ifi \in Interfaces : OthersWakeOnLAN(p, ifi)
        \/ \E ifi \in Interfaces, m \in ModesValues :
                OthersSetWakeOnLAN(p, [Interface |-> ifi, Modes |-> m])
        \/ OthersClose(p)
        \/ Return(p)

OthersSpec == OthersInit /\ [][OthersNext]_vars

(***************************************************************************)
(* Two goroutines that share one client.                                   *)
(***************************************************************************)
\* The goroutines that call the shared client.
ConcurrentCallers == {"a", "b"}

\* The selectors the two goroutines pass: none, an index, a name.
ConcurrentInterfaces ==
    { EmptyInterface,
      [Index |-> GoInt(1), Name |-> ""],
      [Index |-> GoInt(0), Name |-> "eth0"] }

\* What Conn.Execute returns to the two goroutines: no message, one message,
\* the same message twice, a kernel error and an opaque error.
ConcurrentAnswers(kind) ==
    { a \in Answers(kind) :
        /\ \/ Len(a.msgs) <= 1
           \/ Len(a.msgs) = 2 /\ a.msgs[1] = a.msgs[2]
        /\ a.err \in {NoErr, OpaqueErr, OpError("ENODEV", "")} }

\* initClient has returned the client and no goroutine has called it yet.
ConcurrentInit ==
    /\ client = [c |-> "conn", family |-> 20, monitorID |-> 1]
    /\ calls = [p \in ConcurrentCallers |-> Idle]
    /\ codec = NoCodec

\* Conn.Execute returns an answer to goroutine p, whose operation runs to
\* its end, whatever the other goroutine is doing.
ConcurrentExecuteReturns(p) ==
    /\ calls[p].pc = "wait"
    /\ \E answer \in ConcurrentAnswers(KindOf(calls[p].op)) :
            calls' = [calls EXCEPT ![p] = finish(calls[p], answer)]
    /\ UNCHANGED << client, codec >>

ConcurrentNext ==
    \E p \in ConcurrentCallers :
        \/ LinkInfos(p)
        \/ \E ifi \in ConcurrentInterfaces : LinkInfo(p, ifi)
        \/ LinkModes(p)
        \/ \E ifi \in ConcurrentInterfaces : LinkMode(p, ifi)
        \/ LinkStates(p)
        \/ \E ifi \in ConcurrentInterfaces : LinkState(p, ifi)
        \/ WakeOnLANs(p)
        \/ \E ifi \in ConcurrentInterfaces : WakeOnLAN(p, ifi)
        \/ \E ifi \in ConcurrentInterfaces :
                SetWakeOnLAN(p, [Interface |-> ifi, Modes |-> U32(34)])
        \/ ConcurrentExecuteReturns(p)
        \/ Return(p)

ConcurrentSpec == ConcurrentInit /\ [][ConcurrentNext]_vars

(***************************************************************************)
(* Properties.                                                             *)
(***************************************************************************)
\* The selector of call c is empty: Index = 0 and Name = "".
EmptySelector(c) == IsZero(c.ifi.Index) /\ c.ifi.Name = ""

\* Conn.Execute answered call c with the kernel error number e.
KernelError(c, e) ==
    c.answered /\ c.answer.err.type = "OpError" /\ c.answer.err.Err = Errno(e)

\* Conn.Execute answered call c with some kernel error number.
AnyKernelError(c) == c.answered /\ c.answer.err.type = "OpError"

\* Conn.Execute answered call c without an error.
RoundTripOK(c) == c.answered /\ c.answer.err = NoErr

\* C1: every targeted operation (LinkInfo, LinkMode, LinkState, WakeOnLAN,
\* SetWakeOnLAN) called with Index = 0 and Name = "" returns errBadRequest
\* and no record, and Conn.Execute is never called.
C1_EmptySelectorIsBadRequest ==
    \A p \in Callers :
        LET c == calls[p] IN
        (c.op \in GetOps \cup SetOps /\ EmptySelector(c)) =>
            /\ c.pc = "done"
            /\ c.ret = RetErr(errBadRequest)
            /\ c.execCalls = 0
            /\ c.req = NoReq
            /\ ~c.answered

C1_Witness ==
    \E p \in Callers :
        /\ calls[p].op = "SetWakeOnLAN"
        /\ EmptySelector(calls[p])
        /\ calls[p].pc = "done"
        /\ calls[p].ret.err = errBadRequest

\* C2 as stated: a targeted get returns a record only when exactly one
\* response message was received; after a successful round trip with zero
\* or with two or more messages it panics; a transport error is returned
\* without a panic.
C2_Original ==
    \A p \in Callers :
        LET c == calls[p] IN
        (c.op \in GetOps /\ c.pc = "done") =>
            /\ c.ret.rec # NoRecord => (RoundTripOK(c) /\ Len(c.answer.msgs) = 1)
            /\ (RoundTripOK(c) /\ Len(c.answer.msgs) # 1) => c.ret.status = "panic"
            /\ (c.answered /\ c.answer.err # NoErr) =>
                    (c.ret.status = "returned" /\ c.ret.err # NoErr)

\* Every message of ms decodes on its own.
AllDecode(kind, ms) == \A i \in DOMAIN ms : parse(kind, << ms[i] >>).status = "ok"

\* C2, amended: a targeted get returns a record only when exactly one
\* response message was received; after a successful round trip with zero
\* or with two or more messages it returns no record: it panics, unless
\* decoding a message fails, and then it returns the decode error; a
\* transport error is returned, wrapped in *Error, without a panic.
C2_Cardinality ==
    \A p \in Callers :
        LET c == calls[p] IN
        (c.op \in GetOps /\ c.pc = "done") =>
            /\ c.ret.rec # NoRecord => (RoundTripOK(c) /\ Len(c.answer.msgs) = 1)
            /\ (RoundTripOK(c) /\ Len(c.answer.msgs) # 1) =>
                    /\ c.ret.rec = NoRecord
                    /\ \/ c.ret.status = "panic"
                       \/ /\ c.ret.status = "returned"
                          /\ c.ret.err.type = "decode"
                          /\ ~AllDecode(KindOf(c.op), c.answer.msgs)
                    /\ AllDecode(KindOf(c.op), c.answer.msgs) => c.ret.status = "panic"
            /\ (c.answered /\ c.answer.err # NoErr) =>
                    /\ c.ret.status = "returned"
                    /\ c.ret.rec = NoRecord
                    /\ c.ret.err.type = "Error"
                    /\ c.ret.err.Err = c.answer.err

C2_Witness ==
    \E p \in Callers :
        /\ calls[p].op \in GetOps
        /\ RoundTripOK(calls[p])
        /\ Len(calls[p].answer.msgs) = 2
        /\ AllDecode(KindOf(calls[p].op), calls[p].answer.msgs)
        /\ calls[p].ret.status = "panic"

\* C3: for every targeted get, a transport error with kernel error number
\* ENODEV or EOPNOTSUPP yields an error err with errors.Is(err,
\* os.ErrNotExist), and no record.
C3_NotExist ==
    \A p \in Callers :
        LET c == calls[p] IN
        (c.op \in GetOps /\ (KernelError(c, "ENODEV") \/ KernelError(c, "EOPNOTSUPP"))) =>
            /\ c.ret.status = "returned"
            /\ c.ret.rec = NoRecord
            /\ ErrorsIs(c.ret.err, ErrNotExist)

C3_Witness ==
    \E p \in Callers :
        /\ calls[p].op = "LinkState"
        /\ KernelError(calls[p], "EOPNOTSUPP")
        /\ calls[p].pc = "done"
        /\ ErrorsIs(calls[p].ret.err, ErrNotExist)

\* C4: for WakeOnLAN and SetWakeOnLAN, a transport error with kernel error
\* number EPERM yields an error err with errors.Is(err, os.ErrPermission).
C4_Permission ==
    \A p \in Callers :
        LET c == calls[p] IN
        (c.op \in {"WakeOnLAN", "SetWakeOnLAN"} /\ KernelError(c, "EPERM")) =>
            /\ c.ret.status = "returned"
            /\ ErrorsIs(c.ret.err, ErrPermission)

C4_Witness ==
    \E p \in Callers :
        /\ calls[p].op = "SetWakeOnLAN"
        /\ KernelError(calls[p], "EPERM")
        /\ calls[p].pc = "done"
        /\ ErrorsIs(calls[p].ret.err, ErrPermission)

\* The protocol error of call c: a returned *Error that matches neither
\* os.ErrNotExist nor os.ErrPermission and carries the extended
\* acknowledgement text of the netlink error.
ProtocolError(c) ==
    /\ c.ret.status = "returned"
    /\ c.ret.err.type = "Error"
    /\ ~ErrorsIs(c.ret.err, ErrNotExist)
    /\ ~ErrorsIs(c.ret.err, ErrPermission)
    /\ c.ret.err.Message = c.answer.err.Message

\* C5 as stated: for every get or set operation, a transport error whose
\* kernel error number is none of ENODEV, EOPNOTSUPP and EPERM yields a
\* protocol error.
C5_Original ==
    \A p \in Callers :
        LET c == calls[p] IN
        (AnyKernelError(c) /\ c.answer.err.Err.errno \notin {"ENODEV", "EOPNOTSUPP", "EPERM"}) =>
            ProtocolError(c)

\* C5, amended: for every get or set operation, a transport error whose
\* kernel error number is none of ENODEV, EOPNOTSUPP and EPERM, and none of
\* ENOENT and EACCES either, yields a protocol error.
C5_ProtocolError ==
    \A p \in Callers :
        LET c == calls[p] IN
        (AnyKernelError(c)
            /\ c.answer.err.Err.errno \notin {"ENODEV", "EOPNOTSUPP", "EPERM", "ENOENT", "EACCES"}) =>
            ProtocolError(c)

C5_Witness ==
    \E p \in Callers :
        /\ KernelError(calls[p], "EINVAL")
        /\ calls[p].answer.err.Message # ""
        /\ calls[p].pc = "done"
        /\ calls[p].ret.err.Message = calls[p].answer.err.Message

\* C6: the empty-selector failure is its own category: the error returned
\* for an empty selector matches neither os.ErrNotExist nor
\* os.ErrPermission and is not the *Error wrapper, and no error of a call
\* the transport answered is errBadRequest.
C6_BadRequestDistinct ==
    \A p \in Callers :
        LET c == calls[p] IN
        /\ (c.op \in GetOps \cup SetOps /\ EmptySelector(c) /\ c.pc = "done") =>
                /\ c.ret.err # NoErr
                /\ ~ErrorsIs(c.ret.err, ErrNotExist)
                /\ ~ErrorsIs(c.ret.err, ErrPermission)
                /\ c.ret.err.type # "Error"
        /\ c.answered => ~ErrorsIs(c.ret.err, errBadRequest)
        /\ c.execCalls > 0 => ~ErrorsIs(c.ret.err, errBadRequest)

C6_Witness ==
    \E p \in Callers :
        /\ calls[p].op = "LinkMode"
        /\ EmptySelector(calls[p])
        /\ calls[p].pc = "done"
        /\ ErrorsIs(calls[p].ret.err, errBadRequest)

\* The precondition of client.get fails for call c.
PreconditionFails(c) == c.op \in GetOps \cup SetOps /\ EmptySelector(c)

\* C7 as stated: every operation calls Conn.Execute at most once: never
\* when the precondition fails, otherwise exactly once; a failed call is
\* returned to the caller and not repeated.
C7_Original ==
    \A p \in Callers :
        LET c == calls[p] IN
        c.pc # "idle" =>
            /\ c.execCalls <= 1
            /\ PreconditionFails(c) => c.execCalls = 0
            /\ ~PreconditionFails(c) => c.execCalls = 1
            /\ (c.answered /\ c.answer.err # NoErr) =>
                    (c.pc = "done" /\ c.ret.status = "returned" /\ c.ret.err # NoErr)

\* The request of call c cannot be encoded: its device name does not fit in
\* one netlink attribute.
Unencodable(c) == StrLen(c.ifi.Name) > MaxAttrData

\* C7, amended: every operation calls Conn.Execute at most once: never when
\* the precondition fails or the request cannot be encoded, otherwise
\* exactly once; a failed call is returned to the caller and not repeated.
C7_AtMostOneExecute ==
    \A p \in Callers :
        LET c == calls[p] IN
        c.pc # "idle" =>
            /\ c.execCalls <= 1
            /\ (PreconditionFails(c) \/ Unencodable(c)) =>
                    (c.execCalls = 0 /\ c.pc = "done" /\ c.ret.err # NoErr)
            /\ ~(PreconditionFails(c) \/ Unencodable(c)) => c.execCalls = 1
            /\ (c.answered /\ c.answer.err # NoErr) =>
                    (c.pc = "done" /\ c.ret.status = "returned" /\ c.ret.err # NoErr)

C7_Witness ==
    \E p \in Callers :
        /\ calls[p].op \in Ops
        /\ ~PreconditionFails(calls[p])
        /\ calls[p].answered
        /\ calls[p].answer.err = OpaqueErr
        /\ calls[p].pc = "done"
        /\ calls[p].execCalls = 1

\* The attributes of the header group of request r.
HeaderGroup(r) == r.Data[1].nested

\* The types of the attributes as, in order.
TypesOf(as) == [i \in DOMAIN as |-> as[i].type]

\* C8: dump or targeted is decided by the entry point alone: a dump
\* operation always sends flags Request|Dump and a header with neither
\* device index nor device name; a targeted get sends flags Request without
\* Dump, whatever the selector is.
C8_EntryPointDecides ==
    \A p \in Callers :
        LET c == calls[p] IN
        /\ (c.op \in DumpOps /\ c.pc # "idle") =>
                /\ c.req # NoReq
                /\ c.req.flags = {"Request", "Dump"}
                /\ \A i \in DOMAIN HeaderGroup(c.req) :
                        HeaderGroup(c.req)[i].type \notin
                            {"ETHTOOL_A_HEADER_DEV_INDEX", "ETHTOOL_A_HEADER_DEV_NAME"}
        /\ (c.op \in GetOps /\ c.req # NoReq) => c.req.flags = {"Request"}

C8_Witness ==
    \E p \in Callers :
        /\ calls[p].op = "LinkMode"
        /\ calls[p].ifi = [Index |-> TwoTo32, Name |-> ""]
        /\ calls[p].pc = "wait"
        /\ calls[p].req.flags = {"Request"}

\* The types of the header group of a request for selector ifi: index if
\* Index > 0, name if Name is not empty, flags always.
ExpectedHeaderTypes(ifi) ==
    (IF IsPositive(ifi.Index) THEN << "ETHTOOL_A_HEADER_DEV_INDEX" >> ELSE << >>)
    \o (IF ifi.Name # "" THEN << "ETHTOOL_A_HEADER_DEV_NAME" >> ELSE << >>)
    \o << "ETHTOOL_A_HEADER_FLAGS" >>

\* The header group of request r has exactly the attributes of
\* ExpectedHeaderTypes, the name and the flags with their values.
HeaderShape(r, ifi) ==
    LET h == HeaderGroup(r) IN
    /\ Len(r.Data) >= 1
    /\ r.Data[1].form = "nested"
    /\ TypesOf(h) = ExpectedHeaderTypes(ifi)
    /\ \A i \in DOMAIN h :
        /\ h[i].type = "ETHTOOL_A_HEADER_DEV_NAME" => (h[i].form = "string" /\ h[i].str = ifi.Name)
        /\ h[i].type = "ETHTOOL_A_HEADER_FLAGS" => (h[i].form = "bytes" /\ h[i].bytes = << 1, 0, 0, 0 >>)
        /\ h[i].type = "ETHTOOL_A_HEADER_DEV_INDEX" => (h[i].form = "bytes" /\ Len(h[i].bytes) = 4)

\* C9: the header group of every read request holds, in this
\* order and nothing else, the device index if and only if Index > 0, with
\* value Index, the device name if and only if Name is not empty, and the
\* compact-bitsets flags.
C9_Original ==
    \A p \in Callers :
        LET c == calls[p] IN
        (c.op \in DumpOps \cup GetOps /\ c.req # NoReq) =>
            /\ HeaderShape(c.req, c.ifi)
            /\ \A i \in DOMAIN HeaderGroup(c.req) :
                    HeaderGroup(c.req)[i].type = "ETHTOOL_A_HEADER_DEV_INDEX" =>
                        HeaderGroup(c.req)[i].bytes \o << 0, 0, 0, 0 >> = c.ifi.Index

\* C10: SetWakeOnLAN sends the command WOL_SET with flags
\* Request|Acknowledge and, after the header, the modes bitset with SIZE 8
\* and VALUE = MASK = Modes; it returns only an error, which is nil exactly
\* when the transport reports no error, and decodes no response message.
C10_SetWakeOnLAN ==
    \A p \in Callers :
        LET c == calls[p] IN
        c.op = "SetWakeOnLAN" =>
            /\ c.req # NoReq =>
                /\ c.req.Command = "ETHTOOL_MSG_WOL_SET"
                /\ c.req.flags = {"Request", "Acknowledge"}
                /\ Len(c.req.Data) = 2
                /\ c.req.Data[1].type = "ETHTOOL_A_WOL_HEADER"
                /\ c.req.Data[2].type = "ETHTOOL_A_WOL_MODES"
                /\ TypesOf(c.req.Data[2].nested) =
                        << "ETHTOOL_A_BITSET_SIZE", "ETHTOOL_A_BITSET_VALUE",
                           "ETHTOOL_A_BITSET_MASK" >>
                /\ c.req.Data[2].nested[1].bytes = << 8, 0, 0, 0 >>
                /\ c.req.Data[2].nested[2].bytes = c.modes
                /\ c.req.Data[2].nested[3].bytes = c.modes
            /\ c.pc = "done" =>
                /\ c.ret.status = "returned"
                /\ c.ret.rec = NoRecord
                /\ c.ret.list = << >>
            /\ c.answered => (c.ret.err = NoErr <=> c.answer.err = NoErr)

C10_Witness ==
    \E p \in Callers :
        /\ calls[p].op = "SetWakeOnLAN"
        /\ calls[p].modes = U32(34)
        /\ RoundTripOK(calls[p])
        /\ Len(calls[p].answer.msgs) = 2
        /\ ~AllDecode("WakeOnLAN", calls[p].answer.msgs)
        /\ calls[p].ret = RetErr(NoErr)

\* C11: the header of a mutate request carries only the device index
\* and/or the device name and no compact-bitsets flags attribute; the flags
\* attribute is in the header of read requests only.
C11_Original ==
    \A p \in Callers :
        LET c == calls[p] IN
        c.req # NoReq =>
            /\ c.op \in SetOps =>
                    \A i \in DOMAIN HeaderGroup(c.req) :
                        HeaderGroup(c.req)[i].type \in
                            {"ETHTOOL_A_HEADER_DEV_INDEX", "ETHTOOL_A_HEADER_DEV_NAME"}
            /\ c.op \in DumpOps \cup GetOps =>
                    \E i \in DOMAIN HeaderGroup(c.req) :
                        HeaderGroup(c.req)[i].type = "ETHTOOL_A_HEADER_FLAGS"

\* The record that message m decodes to when it is the only message.
RecordOf(kind, m) == parse(kind, << m >>).val[1]

\* C12: a dump operation that succeeds returns exactly one record per
\* response message, in the order of the messages; a response of zero
\* messages yields the empty list, no error and no panic.
C12_DumpRecords ==
    \A p \in Callers :
        LET c == calls[p] IN
        (c.op \in DumpOps /\ c.pc = "done" /\ RoundTripOK(c)) =>
            /\ AllDecode(KindOf(c.op), c.answer.msgs) =>
                    (c.ret.status = "returned" /\ c.ret.err = NoErr)
            /\ (c.ret.status = "returned" /\ c.ret.err = NoErr) =>
                    /\ Len(c.ret.list) = Len(c.answer.msgs)
                    /\ \A i \in DOMAIN c.answer.msgs :
                            c.ret.list[i] = RecordOf(KindOf(c.op), c.answer.msgs[i])
            /\ c.answer.msgs = << >> => c.ret = RetList(<< >>)

C12_Witness ==
    \E p \in Callers :
        /\ calls[p].op = "LinkInfos"
        /\ calls[p].pc = "done"
        /\ RoundTripOK(calls[p])
        /\ calls[p].ret.err = NoErr
        /\ Len(calls[p].ret.list) = 2
        /\ calls[p].ret.list[1] # calls[p].ret.list[2]
        /\ calls[p].ret.list[1].Interface.Name = "eth0"

Ceil32(size) ==
    (size[1] \div 32) + 8 * size[2] + 2048 * size[3] + 524288 * size[4]
    + (IF size[1] % 32 > 0 THEN 1 ELSE 0)

\* The SIZE of the group as, which has a well-formed SIZE attribute.
HasSize(as) == \E k \in DOMAIN as : as[k].type = "ETHTOOL_A_BITSET_SIZE" /\ Uint32Ok(as[k])

SizeOf(as) == as[CHOOSE k \in DOMAIN as : as[k].type = "ETHTOOL_A_BITSET_SIZE"].bytes

\* The attribute list as has an attribute of type t.
HasAttr(as, t) == \E n \in DOMAIN as : as[n].type = t

\* Bit i of the payload of the attribute of type t of as: byte i / 8, bit
\* i % 8; no bit is set when the attribute is absent.
PayloadBit(as, t, i) ==
    \E n \in DOMAIN as :
        /\ as[n].type = t
        /\ (i \div 8) + 1 <= Len(as[n].bytes)
        /\ (as[n].bytes[(i \div 8) + 1] \div Pow2(i % 8)) % 2 = 1

C15_WakeOnLANRoundTrip ==
    codec.fn = "wol" =>
        /\ codec.out.status = "ok"
        /\ Len(codec.out.val) = 1
        /\ codec.out.val[1].Modes = codec.in.Modes

C15_Witness ==
    /\ codec.fn = "wol"
    /\ codec.in.Modes = << 34, 1, 0, 128 >>
    /\ codec.out.status = "ok"
    /\ codec.out.val[1].Modes = << 34, 1, 0, 128 >>

\* C16: parseLinkState reads the link attribute as a byte boolean: Link is
\* false if and only if the byte is 0, and true for every byte 1..255.
C16_LinkByteBoolean ==
    codec.fn = "linkState" =>
        /\ codec.out.status = "ok"
        /\ Len(codec.out.val) = 1
        /\ codec.out.val[1].Link \in BOOLEAN
        /\ codec.out.val[1].Link = FALSE <=> codec.in = 0
        /\ codec.in \in 1..255 => codec.out.val[1].Link = TRUE

C16_Witness ==
    /\ codec.fn = "linkState"
    /\ codec.in = 254
    /\ codec.out.status = "ok"
    /\ codec.out.val[1].Link = TRUE


\* C17: on a platform other than Linux, New and every operation of the
\* client (LinkInfos, LinkInfo, LinkModes, LinkMode, WakeOnLANs, WakeOnLAN,
\* SetWakeOnLAN, Close) return errUnsupported and no data, whatever the
\* receiver and the argument.
C17_Unsupported ==
    \A p \in Callers :
        calls[p].pc = "done" =>
            /\ calls[p].op \in OthersOps
            /\ calls[p].ret.status = "returned"
            /\ calls[p].ret.err = errUnsupported
            /\ calls[p].ret.rec = NoRecord
            /\ calls[p].ret.list = << >>
            /\ calls[p].execCalls = 0

\* Close has returned on the nil receiver that newClient hands out.
C17_Witness ==
    \E p \in Callers :
        /\ client.c = "nil"
        /\ calls[p].pc = "done"
        /\ calls[p].op = "Close"
        /\ calls[p].ret.err = errUnsupported

\* The request that call c hands to the transport when it runs alone.
AloneSend(c) ==
    getSend(client, HeaderOf(c.op), CommandOf(c.op), FlagsOf(c.op), c.ifi,
            IF c.op \in SetOps THEN encode([Interface |-> c.ifi, Modes |-> c.modes])
            ELSE << >>)

\* What call c returns when it runs alone and the transport gives it the
\* answer it was given.
AloneResult(c) ==
    IF c.answered THEN resultOf(c.op, c.answer) ELSE RetErr(AloneSend(c).err)

OpaqueFailure(c) == c.pc = "done" /\ c.answered /\ c.answer.err = OpaqueErr

\* C19 as stated: a failure reported by the transport that is not a kernel
\* error number is returned to the caller unchanged.
C19_Original ==
    \A p \in Callers :
        OpaqueFailure(calls[p]) => calls[p].ret.err = OpaqueErr

\* C19: a failure reported by the transport that is not a kernel error
\* number is returned to the caller inside an *Error whose Message is empty
\* and whose Err is the transport's error: the caller gets no data, reaches
\* the transport's error by Unwrap and errors.Is, and the error matches
\* neither os.ErrNotExist nor os.ErrPermission.
C19_OpaqueWrapped ==
    \A p \in Callers :
        OpaqueFailure(calls[p]) =>
            /\ calls[p].ret.status = "returned"
            /\ calls[p].ret.err = Error("", OpaqueErr)
            /\ Unwrap(calls[p].ret.err) = OpaqueErr
            /\ ErrorsIs(calls[p].ret.err, OpaqueErr)
            /\ ~ErrorsIs(calls[p].ret.err, ErrNotExist)
            /\ ~ErrorsIs(calls[p].ret.err, ErrPermission)
            /\ calls[p].ret.rec = NoRecord
            /\ calls[p].ret.list = << >>

\* LinkState on eth0 has returned after an opaque failure of the transport.
C19_Witness ==
    \E p \in Callers :
        /\ OpaqueFailure(calls[p])
        /\ calls[p].op = "LinkState"
        /\ calls[p].ifi.Name = "eth0"
        /\ calls[p].ret.err.type = "Error"

\* C20 as stated: every request of a targeted get or of a set that is
\* handed to the transport carries a device index or a device name (or
\* both) in its header group, whatever selector the caller passes.
C20_Original ==
    \A p \in Callers :
        (calls[p].op \in GetOps \cup SetOps /\ calls[p].req # NoReq) =>
            \/ HasAttr(HeaderGroup(calls[p].req), "ETHTOOL_A_HEADER_DEV_INDEX")
            \/ HasAttr(HeaderGroup(calls[p].req), "ETHTOOL_A_HEADER_DEV_NAME")

\* The orderings of the attributes as.
Orderings(as) == { [i \in DOMAIN as |-> as[f[i]]] : f \in Permutations(DOMAIN as) }

\* C21 as stated: decoding a compact bitset group gives the same result for
\* every ordering of its NOMASK, SIZE, VALUE and MASK attributes.
C21_Original ==
    codec.fn = "bitset" =>
        \A as \in Orderings(codec.in) : newBitset(as) = codec.out

\* C22: an attribute with a tag that no decoder handles, in a response
\* message or in its nested header group, is ignored: the message decodes
\* to what the same message without that attribute decodes to, a record
\* when that one decodes to a record.
C22_UnknownIgnored ==
    codec.fn = "unknown" =>
        /\ codec.out = parse(codec.in.kind, << codec.in.plain >>)
        /\ codec.in.extended # codec.in.plain

\* A link mode message with the flags attribute in its header group has
\* decoded to the record of eth0 with its speed.
C22_Witness ==
    /\ codec.fn = "unknown"
    /\ codec.in.kind = "LinkMode"
    /\ Len(codec.in.extended) = Len(codec.in.plain)
    /\ codec.out.status = "ok"
    /\ Len(codec.out.val) = 1
    /\ codec.out.val[1].Interface.Name = "eth0"
    /\ codec.out.val[1].SpeedMegabits = GoInt(1000)

\* C23 as stated: decoding a compact bitset returns a decode error whenever
\* the byte length of its VALUE or MASK array differs from 4 times the word
\* count ceil(SIZE/32).
C23_Original ==
    (codec.fn = "bitset" /\ HasSize(codec.in)) =>
        \A k \in DOMAIN codec.in :
            (/\ codec.in[k].type \in {"ETHTOOL_A_BITSET_VALUE", "ETHTOOL_A_BITSET_MASK"}
             /\ Len(codec.in[k].bytes) # 4 * Ceil32(SizeOf(codec.in)))
                => codec.out.status = "error"

\* C24 as stated: for every unsigned 32-bit SIZE, the number of 32-bit
\* words the decoder allocates equals ceil(SIZE/32).
C24_Original ==
    codec.fn = "size" => codec.out = Ceil32(codec.in)

\* C25 as stated: when a decoded capability set has a bit set at an index
\* that has no entry in the link mode table, decoding neither fails nor
\* crashes, and the bit is in the result with its index.
C25_Original ==
    codec.fn = "modes" =>
        \A i \in Len(linkModes)..63 :
            (/\ PayloadBit(codec.in, "ETHTOOL_A_BITSET_VALUE", i)
             /\ PayloadBit(codec.in, "ETHTOOL_A_BITSET_MASK", i))
                => /\ codec.out.status = "ok"
                   /\ \E n \in DOMAIN codec.out.val : codec.out.val[n].Index = i

C26_WakeOnLANWords ==
    (codec.fn = "wolModes" /\ newBitset(codec.in).status = "ok") =>
        /\ Len(newBitset(codec.in).val) > 1 =>
                codec.out = Panic(ZeroU32, "too many Wake-on-LAN mode uint32s in bitset")
        /\ Len(newBitset(codec.in).val) = 1 =>
                codec.out = Ok(newBitset(codec.in).val[1])

\* A bitset of 40 bits, two words, has made the decoder panic.
C26_Witness ==
    /\ codec.fn = "wolModes"
    /\ HasSize(codec.in)
    /\ SizeOf(codec.in) = U32(40)
    /\ Len(newBitset(codec.in).val) = 2
    /\ codec.out.status = "panic"

\* C28 as stated: decoding a Wake-on-LAN modes bitset of zero words (SIZE
\* absent or 0) yields Modes = 0 or a returned error, and no crash.
C28_Original ==
    (/\ codec.fn = "wolModes"
     /\ newBitset(codec.in).status = "ok"
     /\ Len(newBitset(codec.in).val) = 0)
        => \/ codec.out = Ok(ZeroU32)
           \/ codec.out.status = "error"

\* The fields of record rec of a kind whose attributes are absent from
\* message m have their zero values.
AbsentIsZero(kind, m, rec) ==
    /\ ~HasAttr(m, HeaderOf(kind)) => rec.Interface = EmptyInterface
    /\ CASE kind = "LinkInfo" ->
                ~HasAttr(m, "ETHTOOL_A_LINKINFO_PORT") => rec.Port = 0
         [] kind = "LinkState" ->
                ~HasAttr(m, "ETHTOOL_A_LINKSTATE_LINK") => rec.Link = FALSE
         [] kind = "WakeOnLAN" ->
                ~HasAttr(m, "ETHTOOL_A_WOL_MODES") => rec.Modes = ZeroU32
         [] kind = "LinkMode" ->
                /\ ~HasAttr(m, "ETHTOOL_A_LINKMODES_OURS") => rec.Ours = << >>
                /\ ~HasAttr(m, "ETHTOOL_A_LINKMODES_PEER") => rec.Peer = << >>
                /\ ~HasAttr(m, "ETHTOOL_A_LINKMODES_SPEED") => rec.SpeedMegabits = GoInt(0)
                /\ ~HasAttr(m, "ETHTOOL_A_LINKMODES_DUPLEX") => rec.Duplex = 0

\* C27: each record is built from its own response message only: a field
\* whose attribute is absent from the message has its zero value (Index 0,
\* Name "", Port 0, Link false, empty Ours and Peer), whatever the other
\* messages of the response hold.
C27_FreshRecords ==
    \A p \in Callers :
        (/\ calls[p].pc = "done"
         /\ calls[p].op \in DumpOps \cup GetOps
         /\ calls[p].answered
         /\ calls[p].ret.status = "returned"
         /\ calls[p].ret.err = NoErr) =>
            /\ calls[p].op \in DumpOps =>
                    /\ Len(calls[p].ret.list) = Len(calls[p].answer.msgs)
                    /\ \A i \in DOMAIN calls[p].ret.list :
                            AbsentIsZero(KindOf(calls[p].op), calls[p].answer.msgs[i],
                                         calls[p].ret.list[i])
            /\ calls[p].op \in GetOps =>
                    AbsentIsZero(KindOf(calls[p].op), calls[p].answer.msgs[1], calls[p].ret.rec)

\* LinkInfos has returned two records: the first message names eth0, the
\* second has no header and its record has the zero selector.
C27_Witness ==
    \E p \in Callers :
        /\ calls[p].pc = "done"
        /\ calls[p].op = "LinkInfos"
        /\ calls[p].ret.err = NoErr
        /\ Len(calls[p].ret.list) = 2
        /\ calls[p].ret.list[1].Interface.Name = "eth0"
        /\ ~HasAttr(calls[p].answer.msgs[2], "ETHTOOL_A_LINKINFO_HEADER")
        /\ calls[p].ret.list[2].Interface = EmptyInterface
        /\ calls[p].ret.list[2].Port = 255

\* The outcome of the attribute loop of a parse function on message m alone.
MessageOutcome(kind, m) == parseMessageFrom(kind, m, 1, Ok(ZeroRecord(kind)))

\* C29: if decoding of a response message fails (the messages before it
\* having decoded), a get or dump operation returns the decode error of
\* that message and a nil result: none of the records decoded from the
\* earlier messages is returned.
C29_NoPartialResult ==
    \A p \in Callers :
        (/\ calls[p].pc = "done"
         /\ calls[p].op \in DumpOps \cup GetOps
         /\ calls[p].answered
         /\ calls[p].answer.err = NoErr) =>
            \A i \in DOMAIN calls[p].answer.msgs :
                (/\ MessageOutcome(KindOf(calls[p].op), calls[p].answer.msgs[i]).status = "error"
                 /\ \A j \in 1..(i - 1) :
                        MessageOutcome(KindOf(calls[p].op), calls[p].answer.msgs[j]).status = "ok")
                    => /\ calls[p].ret.status = "returned"
                       /\ calls[p].ret.err =
                            MessageOutcome(KindOf(calls[p].op), calls[p].answer.msgs[i]).err
                       /\ calls[p].ret.err.type = "decode"
                       /\ calls[p].ret.list = << >>
                       /\ calls[p].ret.rec = NoRecord

\* LinkInfos was answered with the message of eth0 followed by a message
\* with a port of two bytes, and has returned the decode error alone.
C29_Witness ==
    \E p \in Callers :
        /\ calls[p].pc = "done"
        /\ calls[p].op = "LinkInfos"
        /\ Len(calls[p].answer.msgs) = 2
        /\ MessageOutcome("LinkInfo", calls[p].answer.msgs[1]).status = "ok"
        /\ MessageOutcome("LinkInfo", calls[p].answer.msgs[2]).status = "error"
        /\ calls[p].ret.err.type = "decode"
        /\ calls[p].ret.list = << >>

====
